---- MODULE Spec2Model ----
(***************************************************************************)
(* A model of the metric-computation layer of the data-quality service:    *)
(* the table of one request (df), the settings document (config), the      *)
(* service instances built from it at start-up, the wall clock (now) and   *)
(* the outcome of the latest metric invocation or endpoint handler (last). *)
(*                                                                         *)
(* Numbers.  Every float the code returns is kept exactly, as a tagged     *)
(* record: Fin(h) is the finite value h/100 (the code rounds its scores to *)
(* two decimals), NaNf is IEEE not-a-number, Null is Python None.          *)
(* Timestamps are whole hours counted from 2024-01-01 00:00.               *)
(***************************************************************************)
EXTENDS Integers, Sequences, FiniteSets, TLC

VARIABLES df, config, now, last, struct_service, semantic_service, requests

vars == <<df, config, now, last, struct_service, semantic_service, requests>>

(***************************************************************************)
(* Bounds of the model.                                                    *)
(***************************************************************************)
MaxRows == 4

MaxStamps == 10

MaxTicks == 2

(***************************************************************************)
(* Cells.  k is the runtime kind of the value: "num" a number, "str" a     *)
(* text, "ts" a tz-naive Timestamp, "tsz" a tz-aware (UTC) Timestamp,      *)
(* "nan" the float NaN pandas uses for a missing cell, "nat" the missing   *)
(* Timestamp.                                                              *)
(***************************************************************************)
NaN == [k |-> "nan", v |-> 0, s |-> ""]

NaT == [k |-> "nat", v |-> 0, s |-> ""]

Num(i) == [k |-> "num", v |-> i, s |-> ""]

Str(t) == [k |-> "str", v |-> 0, s |-> t]

Ts(h) == [k |-> "ts", v |-> h, s |-> ""]

TsUTC(h) == [k |-> "tsz", v |-> h, s |-> ""]

isnull(c) == c.k \in {"nan", "nat"}

notna(c) == ~isnull(c)

(***************************************************************************)
(* Floats returned by the metrics.                                         *)
(***************************************************************************)
Fin(h) == [k |-> "fin", v |-> h]

NaNf == [k |-> "nan", v |-> 0]

Null == [k |-> "null", v |-> 0]

(***************************************************************************)
(* Outcome of a call: a returned value, or an exception leaving the call.  *)
(***************************************************************************)
Ok(x) == [raised |-> FALSE, exc |-> "", value |-> x]

Raise(e) == [raised |-> TRUE, exc |-> e, value |-> <<>>]

(***************************************************************************)
(* Arithmetic helpers.                                                     *)
(***************************************************************************)
Range(f) == {f[i] : i \in DOMAIN f}

\* a/b (b > 0) rounded to the nearest integer, ties to even: Python's round.
RoundDiv(a, b) ==
  LET q == a \div b
      r == a % b
  IN  IF 2 * r < b THEN q
      ELSE IF 2 * r > b THEN q + 1
      ELSE IF q % 2 = 0 THEN q ELSE q + 1

Max(a, b) == IF a >= b THEN a ELSE b

RECURSIVE SumSeq(_)
SumSeq(s) == IF s = <<>> THEN 0 ELSE Head(s) + SumSeq(Tail(s))

RECURSIVE SumSq(_)
SumSq(s) == IF s = <<>> THEN 0 ELSE Head(s) * Head(s) + SumSq(Tail(s))

\* (boolean Series).sum(): how many cells satisfy P.
Count(s, P(_)) == Cardinality({i \in DOMAIN s : P(s[i])})

RECURSIVE Insert(_, _)
Insert(x, s) ==
  IF s = <<>> THEN <<x>>
  ELSE IF x <= Head(s) THEN <<x>> \o s
  ELSE <<Head(s)>> \o Insert(x, Tail(s))

RECURSIVE SortInts(_)
SortInts(s) == IF s = <<>> THEN <<>> ELSE Insert(Head(s), SortInts(Tail(s)))

\* Series.diff() of a sorted integer sequence, first (undefined) entry dropped.
Diffs(s) == [i \in 1..(Len(s) - 1) |-> s[i + 1] - s[i]]

\* Twice the median of a non-empty sorted sequence (an integer).
Median2(s) ==
  LET n == Len(s)
  IN  IF n % 2 = 1 THEN 2 * s[(n + 1) \div 2]
      ELSE s[n \div 2] + s[n \div 2 + 1]

(***************************************************************************)
(* The table.  df maps each column name to a Series: its dtype and its     *)
(* cells.  read_file builds it from the upload; a column of a delimited    *)
(* file is int64 when every cell is a number, float64 when the rest are    *)
(* missing, object otherwise, and every column of a header-only file is    *)
(* object.                                                                 *)
(***************************************************************************)
infer_dtype(vals) ==
  IF Len(vals) = 0 THEN "object"
  ELSE IF \A i \in DOMAIN vals : vals[i].k = "num" THEN "int64"
  ELSE IF \A i \in DOMAIN vals : vals[i].k \in {"num", "nan"} THEN "float64"
  ELSE "object"

Series(vals) == [dtype |-> infer_dtype(vals), vals |-> vals]

columns(d) == DOMAIN d

len(d) == Len(d[CHOOSE c \in DOMAIN d : TRUE].vals)

size(d) == Cardinality(columns(d)) * len(d)

\* df.select_dtypes(include=["int", "float"]).columns
numeric_columns(d) == {c \in columns(d) : d[c].dtype \in {"int64", "float64"}}

\* The valid numbers / timestamps of a Series, in row order.
Values(ser) ==
  LET ok == SelectSeq(ser.vals, notna)
  IN  [i \in 1..Len(ok) |-> ok[i].v]

(***************************************************************************)
(* pd.to_datetime.  The texts the model knows, each in the one format      *)
(* "YYYY-MM-DD HH:MM" (with or without a UTC offset); any other text does  *)
(* not parse.                                                              *)
(***************************************************************************)
parse_datetime(t) ==
  CASE t = "2024-01-01 00:00" -> Ts(0)
    [] t = "2024-01-01 05:00" -> Ts(5)
    [] t = "2024-01-03 00:00" -> Ts(48)
    [] t = "2023-12-01 00:00" -> Ts(-744)
    [] t = "2024-01-01 00:00+00:00" -> TsUTC(0)
    [] t = "2024-01-03 05:00+00:00" -> TsUTC(53)
    [] OTHER -> NaT

\* One cell through to_datetime; a number is nanoseconds after 1970-01-01.
to_datetime_cell(c) ==
  CASE c.k = "str" -> parse_datetime(c.s)
    [] c.k = "num" -> Ts(-473352)
    [] c.k = "nan" -> NaT
    [] OTHER -> c

datetime_dtype(vals) ==
  IF \E i \in DOMAIN vals : vals[i].k = "tsz"
  THEN "datetime64[ns, UTC]" ELSE "datetime64[ns]"

\* pd.to_datetime(series, errors='coerce')
to_datetime_coerce(ser) ==
  LET vals == [i \in DOMAIN ser.vals |-> to_datetime_cell(ser.vals[i])]
  IN  [dtype |-> datetime_dtype(vals), vals |-> vals]

\* pd.to_datetime(series, errors='ignore'): the input itself when a cell fails.
to_datetime_ignore(ser) ==
  IF \E i \in DOMAIN ser.vals :
       ser.vals[i].k = "str" /\ parse_datetime(ser.vals[i].s) = NaT
  THEN ser
  ELSE to_datetime_coerce(ser)

\* Gaps between successive valid timestamps after sort_values(), in hours.
sorted_gaps(ser) == Diffs(SortInts(Values(ser)))

(***************************************************************************)
(* Comparison of a Series with a scalar (df[col] < x).  Python orders      *)
(* texts by code point; StrRank is that order on the texts of the model.   *)
(* A missing cell compares False.  Comparing a number with a text, or a    *)
(* Timestamp with a number, raises TypeError.                              *)
(***************************************************************************)
StrRank(t) ==
  CASE t = "2023-12-01 00:00" -> 1
    [] t = "2024-01-01 00:00" -> 2
    [] t = "2024-01-01 00:00+00:00" -> 3
    [] t = "2024-01-01 05:00" -> 4
    [] t = "2024-01-03 00:00" -> 5
    [] t = "2024-01-03 05:00+00:00" -> 6
    [] t = "A" -> 7
    [] t = "B" -> 8
    [] t = "C" -> 9
    [] t = "not-a-date" -> 10
    [] OTHER -> 11

compare_raises(ser, x) ==
  IF ser.dtype \in {"int64", "float64"} THEN x.k # "num"
  ELSE IF ser.dtype = "object"
  THEN \E i \in DOMAIN ser.vals :
         /\ notna(ser.vals[i])
         /\ ser.vals[i].k # x.k
  ELSE x.k # "str" \/ parse_datetime(x.s) = NaT

cell_lt(c, x) ==
  CASE isnull(c) -> FALSE
    [] c.k = "num" -> c.v < x.v
    [] c.k = "str" -> StrRank(c.s) < StrRank(x.s)
    [] OTHER -> c.v < parse_datetime(x.s).v

cell_gt(c, x) ==
  CASE isnull(c) -> FALSE
    [] c.k = "num" -> c.v > x.v
    [] c.k = "str" -> StrRank(c.s) > StrRank(x.s)
    [] OTHER -> c.v > parse_datetime(x.s).v

\* ((df[col] < min_val) | (df[col] > max_val)), row by row.
out_of_range(c, min_val, max_val) == cell_lt(c, min_val) \/ cell_gt(c, max_val)

(***************************************************************************)
(* Core Quality                                                            *)
(***************************************************************************)
isnull_sum(d) ==
  SumSeq([i \in 1..len(d) |-> Cardinality({c \in columns(d) : isnull(d[c].vals[i])})])

\* numpy divides 0 by 0 into NaN, and NaN compares False with every bound.
completeness(d) ==
  LET total_cells == size(d)
      missing_cells == isnull_sum(d)
      completeness_score ==
        IF total_cells = 0 THEN NaNf
        ELSE Fin(RoundDiv((total_cells - missing_cells) * 10000, total_cells))
      status ==
        IF total_cells > 0 /\ 5 * missing_cells > total_cells THEN "CRITICAL"
        ELSE IF total_cells > 0 /\ 10 * missing_cells > total_cells THEN "WARNING"
        ELSE "GOOD"
  IN  Ok([score |-> completeness_score,
          missing_cells |-> missing_cells,
          status |-> status])

consistency_col(ser) ==
  LET valid_dates == to_datetime_coerce(ser)
      n == Len(valid_dates.vals)
      valid == Count(valid_dates.vals, notna)
  IN  ("validity_%" :> (IF n = 0 THEN NaNf ELSE Fin(RoundDiv(valid * 10000, n))))
      @@ ("status" :> (IF n > 0 /\ 10 * valid < 9 * n THEN "Inconsistent" ELSE "OK"))

consistency(d, datetime_columns) ==
  IF \E col \in Range(datetime_columns) : col \notin columns(d)
  THEN Raise("KeyError")
  ELSE Ok([col \in Range(datetime_columns) |-> consistency_col(d[col])])

\* |z| > 3 with z = (x - mean)/std(ddof=0), over the m valid values:
\* (m*x - S)^2 > 9*(m*Q - S^2); a zero deviation gives 0/0 = NaN, never > 3.
accuracy_col(ser) ==
  LET xs == Values(ser)
      m == Len(xs)
      S == SumSeq(xs)
      Q == SumSq(xs)
      n == Len(ser.vals)
      outliers ==
        Cardinality({i \in 1..m :
          (m * xs[i] - S) * (m * xs[i] - S) > 9 * (m * Q - S * S)})
      ratio == IF n = 0 THEN NaNf ELSE Fin(RoundDiv(outliers * 10000, n))
  IN  ("outlier_%" :> ratio)
      @@ ("status" :> (IF n > 0 /\ 10 * outliers > n THEN "Issue" ELSE "OK"))

accuracy(d, numeric_cols) ==
  IF \E col \in numeric_cols : col \notin columns(d) THEN Raise("KeyError")
  ELSE IF \E col \in numeric_cols : d[col].dtype \notin {"int64", "float64"}
  THEN Raise("TypeError")
  ELSE Ok([col \in numeric_cols |-> accuracy_col(d[col])])

validity_col(ser, min_val, max_val) ==
  LET invalid_count ==
        Count(ser.vals, LAMBDA c : out_of_range(c, min_val, max_val))
  IN  [invalid_count |-> invalid_count,
       status |-> IF invalid_count > 0 THEN "Invalid" ELSE "Valid"]

validity(d, value_ranges) ==
  LET cols == DOMAIN value_ranges \cap columns(d)
  IN  IF \E col \in cols :
           \/ compare_raises(d[col], value_ranges[col][1])
           \/ compare_raises(d[col], value_ranges[col][2])
      THEN Raise("TypeError")
      ELSE Ok([col \in cols |->
                 validity_col(d[col], value_ranges[col][1], value_ranges[col][2])])

\* One column of timeliness, on the converted Series.
timeliness_col(ser) ==
  LET gaps == sorted_gaps(ser)
      median_gap2 == Median2(SortInts(gaps))
      large_gaps == Count(gaps, LAMBDA g : 2 * g > 3 * median_gap2)
  IN  [large_gaps |-> large_gaps,
       status |-> IF large_gaps > 0 THEN "Issue" ELSE "OK"]

\* The loop of timeliness: it assigns the converted Series back into df.
RECURSIVE timeliness_loop(_, _, _)
timeliness_loop(d, cols, result) ==
  IF cols = <<>> THEN [df |-> d, out |-> Ok(result)]
  ELSE
    LET col == Head(cols)
    IN  IF col \notin columns(d) THEN [df |-> d, out |-> Raise("KeyError")]
        ELSE
          LET d2 == [d EXCEPT ![col] = to_datetime_ignore(d[col])]
              reported ==
                /\ d2[col].dtype = "datetime64[ns]"
                /\ Len(sorted_gaps(d2[col])) > 0
          IN  timeliness_loop(d2, Tail(cols),
                IF reported /\ col \notin DOMAIN result
                THEN result @@ (col :> timeliness_col(d2[col]))
                ELSE result)

timeliness(d, datetime_columns) == timeliness_loop(d, datetime_columns, <<>>)

\* df.duplicated().sum(): rows equal, cell by cell, to an earlier row.
duplicated_sum(d) ==
  Cardinality({i \in 1..len(d) :
    \E j \in 1..(i - 1) : \A c \in columns(d) : d[c].vals[j] = d[c].vals[i]})

uniqueness(d) ==
  LET total_rows == len(d)
      duplicate_rows == duplicated_sum(d)
      score ==
        IF total_rows = 0 THEN NaNf
        ELSE Fin(RoundDiv((total_rows - duplicate_rows) * 10000, total_rows))
  IN  Ok([duplicate_count |-> duplicate_rows,
          uniqueness_score |-> score,
          status |-> IF duplicate_rows > 0 THEN "Issue" ELSE "OK"])

(***************************************************************************)
(* Square roots.  Root100(P, Q) is 100*sqrt(P/Q) rounded to two decimals,  *)
(* in hundredths: the decimal digits of the root are taken one at a time   *)
(* from the remainder, so that every intermediate number stays small.      *)
(***************************************************************************)
RECURSIVE GCD(_, _)
GCD(a, b) == IF b = 0 THEN a ELSE GCD(b, a % b)

RECURSIVE RootDigits(_, _, _, _)
RootDigits(r, rem, Q, d) ==
  IF d = 0 THEN [root |-> r, rem |-> rem]
  ELSE
    LET fits(t) == (20 * r * t + t * t) * Q <= 100 * rem
        t == CHOOSE t \in 0..9 : fits(t) /\ (t = 9 \/ ~fits(t + 1))
    IN  RootDigits(10 * r + t, 100 * rem - (20 * r * t + t * t) * Q, Q, d - 1)

Root100(P0, Q0) ==
  LET g == GCD(P0, Q0)
      P == P0 \div g
      Q == Q0 \div g
      r0 == CHOOSE r \in 0..64 : r * r * Q <= P /\ (r + 1) * (r + 1) * Q > P
      fl == RootDigits(r0, P - r0 * r0 * Q, Q, 4)
  IN  IF (4 * fl.root + 1) * Q <= 4 * fl.rem THEN fl.root + 1 ELSE fl.root

RECURSIVE SumFn(_)
SumFn(f) ==
  IF DOMAIN f = {} THEN 0
  ELSE LET x == CHOOSE x \in DOMAIN f : TRUE
       IN  f[x] + SumFn([y \in DOMAIN f \ {x} |-> f[y]])

(***************************************************************************)
(* Temporal Quality                                                        *)
(***************************************************************************)
\* The valid timestamps of pd.to_datetime(df[col], errors='coerce').
parsed_valid(ser) == Values(to_datetime_coerce(ser))

\* results = {}; for col in datetime_columns: results[col] = f(df[col]).
per_column(d, cols, f(_)) ==
  IF \E col \in Range(cols) : col \notin columns(d) THEN Raise("KeyError")
  ELSE Ok([col \in Range(cols) |-> f(d[col])])

\* The mutation of C15: the rate is taken over the non-missing rows instead
\* of all rows of the column.
timestamp_accuracy_col_dropna(ser) ==
  LET total == Len(SelectSeq(ser.vals, notna))
      valid == Len(parsed_valid(ser))
      accuracy_pct == IF total > 0 THEN RoundDiv(valid * 10000, total) ELSE 0
  IN  ("accuracy_%" :> Fin(accuracy_pct))
      @@ ("status" :> (IF accuracy_pct < 9000 THEN "Issue" ELSE "OK"))

timestamp_accuracy_col(ser) ==
  LET total == Len(ser.vals)
      valid == Len(parsed_valid(ser))
      accuracy_pct == IF total > 0 THEN RoundDiv(valid * 10000, total) ELSE 0
  IN  ("accuracy_%" :> Fin(accuracy_pct))
      @@ ("status" :> (IF accuracy_pct < 9000 THEN "Issue" ELSE "OK"))

timestamp_accuracy(d, datetime_columns) ==
  per_column(d, datetime_columns, timestamp_accuracy_col)

\* The mutation of C20: a gap is oversized when above the median gap, not
\* twice the median gap.
temporal_continuity_col_median(ser) ==
  LET parsed == SortInts(parsed_valid(ser))
      diffs == Diffs(parsed)
      median_gap2 == Median2(SortInts(diffs))
      oversized == IF median_gap2 > 0 THEN Count(diffs, LAMBDA g : 2 * g > median_gap2) ELSE 0
      continuity == RoundDiv((Len(diffs) - oversized) * 10000, Len(diffs))
  IN  IF Len(parsed) < 2
      THEN ("continuity_%" :> Fin(0)) @@ ("status" :> "Issue")
      ELSE ("continuity_%" :> Fin(continuity))
           @@ ("status" :> (IF continuity < 8800 THEN "Issue" ELSE "OK"))

temporal_continuity_col(ser) ==
  LET parsed == SortInts(parsed_valid(ser))
      diffs == Diffs(parsed)
      median_gap2 == Median2(SortInts(diffs))
      oversized == IF median_gap2 > 0 THEN Count(diffs, LAMBDA g : g > median_gap2) ELSE 0
      continuity == RoundDiv((Len(diffs) - oversized) * 10000, Len(diffs))
  IN  IF Len(parsed) < 2
      THEN ("continuity_%" :> Fin(0)) @@ ("status" :> "Issue")
      ELSE ("continuity_%" :> Fin(continuity))
           @@ ("status" :> (IF continuity < 8800 THEN "Issue" ELSE "OK"))

temporal_continuity(d, datetime_columns) ==
  per_column(d, datetime_columns, temporal_continuity_col)

\* The distinct tzinfo of the parsed values; a naive Timestamp has none.
unique_tz(ser) ==
  {c.k : c \in {x \in Range(to_datetime_coerce(ser).vals) : x.k = "tsz"}}

time_zone_consistency_col(ser) ==
  IF Cardinality(unique_tz(ser)) <= 1
  THEN ("timezone_consistency_%" :> Fin(10000)) @@ ("status" :> "OK")
  ELSE ("timezone_consistency_%" :> Fin(7000)) @@ ("status" :> "Issue")

time_zone_consistency(d, datetime_columns) ==
  per_column(d, datetime_columns, time_zone_consistency_col)

\* std(ddof=1)/mean of the k gaps, squared: k*(k*Q2 - S^2) / ((k-1)*S^2).
\* One gap has std NaN and a zero mean gives inf; max(0, .) keeps 0 for both.
temporal_granularity_col(ser) ==
  LET diffs == sorted_gaps(to_datetime_coerce(ser))
      k == Len(diffs)
      S == SumSeq(diffs)
      Q2 == SumSq(diffs)
      granularity ==
        IF k <= 1 \/ S = 0 THEN 0
        ELSE Max(0, 10000 - Root100(k * (k * Q2 - S * S), (k - 1) * S * S))
  IN  ("granularity_%" :> Fin(granularity))
      @@ ("status" :> (IF granularity < 8500 THEN "Issue" ELSE "OK"))

temporal_granularity(d, datetime_columns) ==
  per_column(d, datetime_columns, temporal_granularity_col)

\* (now - latest).days floors; a tz-aware latest cannot be subtracted from
\* the naive datetime.now().
freshness_score_col(ser, clock) ==
  LET parsed == parsed_valid(ser)
      latest == CHOOSE x \in Range(parsed) : \A y \in Range(parsed) : y <= x
      diff_days == (clock - latest) \div 24
      score == IF parsed = <<>> THEN 0 ELSE Max(0, 100 - diff_days)
  IN  ("freshness_%" :> Fin(100 * score))
      @@ ("status" :> (IF score < 85 THEN "Issue" ELSE "OK"))

freshness_score(d, datetime_columns, clock) ==
  IF \E col \in Range(datetime_columns) : col \notin columns(d) THEN Raise("KeyError")
  ELSE IF \E col \in Range(datetime_columns) :
            /\ parsed_valid(d[col]) # <<>>
            /\ to_datetime_coerce(d[col]).dtype = "datetime64[ns, UTC]"
  THEN Raise("TypeError")
  ELSE Ok([col \in Range(datetime_columns) |-> freshness_score_col(d[col], clock)])

\* parsed.dt.hour and the size of each hour-of-day group.
hour_sizes(parsed) ==
  [h \in {x % 24 : x \in Range(parsed)} |-> Count(parsed, LAMBDA x : x % 24 = h)]

\* Sum over the k hour groups of (k*c - n)^2: k^2 n^2 times the squared
\* deviations of the normalised counts from their mean 1/k.
deviation_sum(sizes, n) ==
  LET k == Cardinality(DOMAIN sizes)
  IN  SumFn([h \in DOMAIN sizes |-> (k * sizes[h] - n) * (k * sizes[h] - n)])

\* std(ddof=1) of a single value is NaN, and NaN < 75 is False.
temporal_pattern_col(ser) ==
  LET parsed == parsed_valid(ser)
      n == Len(parsed)
      hour_counts == hour_sizes(parsed)
      k == Cardinality(DOMAIN hour_counts)
      pattern_score == 10000 - Root100(deviation_sum(hour_counts, n), n * n * k * k * (k - 1))
  IN  IF parsed = <<>>
      THEN ("pattern_score_%" :> Fin(0)) @@ ("status" :> "Issue")
      ELSE IF k = 1
      THEN ("pattern_score_%" :> NaNf) @@ ("status" :> "OK")
      ELSE ("pattern_score_%" :> Fin(pattern_score))
           @@ ("status" :> (IF pattern_score < 7500 THEN "Issue" ELSE "OK"))

temporal_pattern(d, datetime_columns) ==
  per_column(d, datetime_columns, temporal_pattern_col)

seasonality_detection_col(ser) ==
  LET parsed == parsed_valid(ser)
      n == Len(parsed)
      daily_pattern == hour_sizes(parsed)
      k == Cardinality(DOMAIN daily_pattern)
      seasonality_strength ==
        10000 - Root100(deviation_sum(daily_pattern, n), (k - 1) * n * n)
  IN  IF n < 10
      THEN ("seasonality_%" :> Fin(0)) @@ ("status" :> "Issue")
      ELSE IF k = 1
      THEN ("seasonality_%" :> NaNf) @@ ("status" :> "OK")
      ELSE ("seasonality_%" :> Fin(seasonality_strength))
           @@ ("status" :> (IF seasonality_strength < 7000 THEN "Issue" ELSE "OK"))

seasonality_detection(d, datetime_columns) ==
  per_column(d, datetime_columns, seasonality_detection_col)

(***************************************************************************)
(* Statistical Quality (the metrics the claims reason about)               *)
(***************************************************************************)
\* Four times Series.quantile(num/4) of the sorted valid values xs
\* (linear interpolation between the two neighbouring order statistics).
Quantile4(xs, num) ==
  LET pos == num * (Len(xs) - 1)
      lo == pos \div 4
      fr == pos % 4
  IN  IF fr = 0 THEN 4 * xs[lo + 1]
      ELSE 4 * xs[lo + 1] + fr * (xs[lo + 2] - xs[lo + 1])

\* Rows outside [Q1 - 1.5 IQR, Q3 + 1.5 IQR]; the quantiles of a column with
\* no valid value are NaN, and nothing compares outside NaN bounds.
outlier_rows(ser) ==
  LET xs == SortInts(Values(ser))
      Q1 == Quantile4(xs, 1)
      Q3 == Quantile4(xs, 3)
      IQR == Q3 - Q1
  IN  IF xs = <<>> THEN 0
      ELSE Count(Values(ser),
             LAMBDA x : 8 * x < 2 * Q1 - 3 * IQR \/ 8 * x > 2 * Q3 + 3 * IQR)

outlier_score_col(ser, total_rows) ==
  LET outliers == outlier_rows(ser)
  IN  ("outlier_%" :> Fin(RoundDiv(outliers * 10000, total_rows)))
      @@ ("status" :> (IF 20 * outliers > total_rows THEN "Issue" ELSE "OK"))

outlier_score(d, numeric_cols) ==
  IF \E col \in numeric_cols : col \notin columns(d) THEN Raise("KeyError")
  ELSE IF \E col \in numeric_cols : d[col].dtype \notin {"int64", "float64"}
  THEN Raise("TypeError")
  ELSE IF numeric_cols # {} /\ len(d) = 0 THEN Raise("ZeroDivisionError")
  ELSE Ok([col \in numeric_cols |-> outlier_score_col(d[col], len(d))])

\* spikes: x > 5*median, drops: x < 0.2*median; a NaN median flags nothing.
statistical_anomalies_col(ser) ==
  LET xs == Values(ser)
      median2 == Median2(SortInts(xs))
      spikes == IF xs = <<>> THEN 0 ELSE Count(xs, LAMBDA x : 2 * x > 5 * median2)
      drops == IF xs = <<>> THEN 0 ELSE Count(xs, LAMBDA x : 10 * x < median2)
  IN  [spikes |-> spikes,
       drops |-> drops,
       status |-> IF spikes + drops > 0 THEN "Anomalies Found" ELSE "OK"]

statistical_anomalies(d, numeric_cols) ==
  IF \E col \in numeric_cols : col \notin columns(d) THEN Raise("KeyError")
  ELSE IF \E col \in numeric_cols : d[col].dtype \notin {"int64", "float64"}
  THEN Raise("TypeError")
  ELSE Ok([col \in numeric_cols |-> statistical_anomalies_col(d[col])])

(***************************************************************************)
(* Precision Quality (the metric the claims reason about)                  *)
(***************************************************************************)
\* Digits after the point in str(x): none for an int64 cell, one ("5.0") for
\* a whole number held in a float64 column.
decimal_places(ser) == IF ser.dtype = "int64" THEN 0 ELSE 1

decimal_precision_col(d, col) ==
  IF col \notin columns(d) THEN [error |-> "KeyError", status |-> "Error"]
  ELSE IF Values(d[col]) = <<>>
  THEN [unique_decimal_counts |-> <<>>, status |-> "No data"]
  ELSE [unique_decimal_counts |-> <<decimal_places(d[col])>>, status |-> "OK"]

decimal_precision(d, numeric_cols) ==
  Ok([col \in numeric_cols |-> decimal_precision_col(d, col)])

(***************************************************************************)
(* Start-up: the settings document and the services built from it.         *)
(***************************************************************************)
\* config.get(key, default)
get(cfg, key, default) == IF key \in DOMAIN cfg THEN cfg[key] ELSE default

StructuralQualityService(cfg) ==
  [expected_schema |-> get(cfg, "expected_schema", <<>>),
   identifier_columns |-> get(cfg, "identifier_columns", <<>>),
   datetime_columns |-> get(cfg, "datetime_columns", <<>>)]

SemanticQualityService(cfg) ==
  [identifier_columns |-> get(cfg, "identifier_columns", <<>>),
   domain_rules |-> get(cfg, "domain_rules", <<>>),
   cross_field_rules |-> get(cfg, "cross_field_rules", <<>>),
   metadata_columns |-> get(cfg, "metadata_columns", <<>>),
   frequency_columns |-> get(cfg, "frequency_columns", <<>>),
   powerfactor_columns |-> get(cfg, "powerfactor_columns", <<>>)]

\* [col for col in config["datetime_columns"] if col in df.columns]
present_datetime_columns(d, cfg) ==
  SelectSeq(cfg["datetime_columns"], LAMBDA col : col \in columns(d))

(***************************************************************************)
(* POST /data-quality.  The six metrics are evaluated in the order of the  *)
(* returned dict; the first exception leaves the handler.                  *)
(***************************************************************************)
core_report(d, cfg) ==
  IF "datetime_columns" \notin DOMAIN cfg THEN [df |-> d, out |-> Raise("KeyError")]
  ELSE
    LET datetime_columns == present_datetime_columns(d, cfg)
        r1 == completeness(d)
        r2 == consistency(d, datetime_columns)
        r3 == accuracy(d, numeric_columns(d))
        r4 == IF "value_ranges" \in DOMAIN cfg
              THEN validity(d, cfg["value_ranges"]) ELSE Raise("KeyError")
        t5 == timeliness(d, datetime_columns)
        r6 == uniqueness(t5.df)
    IN  IF r1.raised THEN [df |-> d, out |-> r1]
        ELSE IF r2.raised THEN [df |-> d, out |-> r2]
        ELSE IF r3.raised THEN [df |-> d, out |-> r3]
        ELSE IF r4.raised THEN [df |-> d, out |-> r4]
        ELSE IF t5.out.raised THEN t5
        ELSE IF r6.raised THEN [df |-> t5.df, out |-> r6]
        ELSE [df |-> t5.df,
              out |-> Ok([completeness |-> r1.value,
                          consistency |-> r2.value,
                          accuracy |-> r3.value,
                          validity |-> r4.value,
                          timeliness |-> t5.out.value,
                          uniqueness |-> r6.value])]

(***************************************************************************)
(* POST /temporal-quality.  The result is returned as computed.            *)
(***************************************************************************)
temporal_report(d, cfg, clock) ==
  IF "datetime_columns" \notin DOMAIN cfg THEN Raise("KeyError")
  ELSE
    LET datetime_columns == present_datetime_columns(d, cfg)
        r1 == timestamp_accuracy(d, datetime_columns)
        r2 == temporal_continuity(d, datetime_columns)
        r3 == time_zone_consistency(d, datetime_columns)
        r4 == temporal_granularity(d, datetime_columns)
        r5 == freshness_score(d, datetime_columns, clock)
        r6 == temporal_pattern(d, datetime_columns)
        r7 == seasonality_detection(d, datetime_columns)
    IN  IF r1.raised THEN r1
        ELSE IF r2.raised THEN r2
        ELSE IF r3.raised THEN r3
        ELSE IF r4.raised THEN r4
        ELSE IF r5.raised THEN r5
        ELSE IF r6.raised THEN r6
        ELSE IF r7.raised THEN r7
        ELSE Ok([timestamp_accuracy |-> r1.value,
                 temporal_continuity |-> r2.value,
                 time_zone_consistency |-> r3.value,
                 temporal_granularity |-> r4.value,
                 freshness_score |-> r5.value,
                 temporal_pattern |-> r6.value,
                 seasonality_detection |-> r7.value])

(***************************************************************************)
(* Semantic Quality (the metrics the claims reason about).  svc is the     *)
(* service instance; its fields were read from the settings at start-up.   *)
(***************************************************************************)
\* df[col].std() > 0.2 over the m valid values (ddof=1; NaN below 2 values):
\* (m*Q - S^2)/(m*(m-1)) > 1/25.
std_above_fifth(ser) ==
  LET xs == Values(ser)
      m == Len(xs)
  IN  m >= 2 /\ 25 * (m * SumSq(xs) - SumSeq(xs) * SumSeq(xs)) > m * (m - 1)

present(d, cols) == SelectSeq(cols, LAMBDA col : col \in columns(d))

\* rule_violations of the power-factor columns: every violating row counts.
RECURSIVE pf_violations(_, _)
pf_violations(d, cols) ==
  IF cols = <<>> THEN 0
  ELSE Count(d[Head(cols)].vals, LAMBDA c : out_of_range(c, Num(-1), Num(1)))
       + pf_violations(d, Tail(cols))

\* compliance_score = 1 - violations/(total_rules + 1e-6), rounded to two
\* decimals: (10^8*(t - v) + 100) / (10^6*t + 1) in hundredths.
business_rule_compliance(svc, d) ==
  LET freq_cols == present(d, svc.frequency_columns)
      pf_cols == present(d, svc.powerfactor_columns)
      rule_violations ==
        Count(freq_cols, LAMBDA col : std_above_fifth(d[col])) + pf_violations(d, pf_cols)
      total_rules == Len(freq_cols) + Len(pf_cols)
      compliance_score ==
        RoundDiv(100000000 * (total_rules - rule_violations) + 100,
                 1000000 * total_rules + 1)
  IN  IF \E col \in Range(freq_cols) : \E i \in DOMAIN d[col].vals : d[col].vals[i].k = "str"
      THEN Raise("TypeError")
      ELSE IF \E col \in Range(pf_cols) : compare_raises(d[col], Num(1))
      THEN Raise("TypeError")
      ELSE Ok([rule_violations |-> rule_violations,
               compliance_score |-> Fin(compliance_score),
               status |-> IF 20 * rule_violations > total_rules THEN "Issue" ELSE "OK"])

\* (~df[col].isin(rule)).any(): a missing cell is in no rule.
not_isin_any(ser, rule) ==
  \E i \in DOMAIN ser.vals : ser.vals[i] \notin Range(rule)

\* One rule: a list of exactly two elements is unpacked as [min, max].
domain_rule_invalid(ser, rule) ==
  IF Len(rule) = 2
  THEN \E i \in DOMAIN ser.vals : out_of_range(ser.vals[i], rule[1], rule[2])
  ELSE not_isin_any(ser, rule)

domain_value_validity(svc, d) ==
  LET rules == svc.domain_rules
      checked == DOMAIN rules \cap columns(d)
      invalid_columns == {col \in checked : domain_rule_invalid(d[col], rules[col])}
      denom == Max(Cardinality(DOMAIN rules), 1)
      score == RoundDiv((denom - Cardinality(invalid_columns)) * 100, denom)
  IN  IF \E col \in checked :
           /\ Len(rules[col]) = 2
           /\ compare_raises(d[col], rules[col][1]) \/ compare_raises(d[col], rules[col][2])
      THEN Raise("TypeError")
      ELSE Ok([invalid_columns |-> invalid_columns,
               domain_validity_score |-> Fin(score),
               status |-> IF 100 * (denom - Cardinality(invalid_columns)) < 88 * denom
                          THEN "Issue" ELSE "OK"])

(***************************************************************************)
(* Inputs.  A column of n rows is a run of one cell followed by a run of   *)
(* another (every column of at most two rows has this shape).  A column of *)
(* a delimited file holds numbers or texts, never both, and a datetime     *)
(* column is written with or without the UTC offset throughout.            *)
(***************************************************************************)
Col(n, a, b, j) == [i \in 1..n |-> IF i <= j THEN a ELSE b]

Runs(n, S) ==
  IF n = 0 THEN {<<>>} ELSE {Col(n, a, b, j) : a \in S, b \in S, j \in 1..n}

NaiveTexts == {Str("2024-01-01 00:00"), Str("2024-01-03 00:00"), Str("not-a-date"), NaN}

AwareTexts == {Str("2024-01-01 00:00+00:00"), NaN}

Numbers == {Num(0), Num(1), Num(5), NaN}

Texts == {Str("x"), NaN}

TsColumns(n) == Runs(n, NaiveTexts) \cup Runs(n, AwareTexts)

VColumns(n) == Runs(n, Numbers) \cup Runs(n, Texts)

CoreTablesOfLen(n) ==
  {("ts" :> Series(t)) @@ ("v" :> Series(x)) : t \in TsColumns(n), x \in VColumns(n)}
  \cup {("ts" :> Series(t)) : t \in TsColumns(n)}
  \cup {("v" :> Series(x)) : x \in VColumns(n)}

CoreTables == UNION {CoreTablesOfLen(n) : n \in 0..MaxRows}

\* The settings document config/column_config.yaml, every field present.
FullConfig ==
  [expected_schema |-> <<"ts", "v">>,
   value_ranges |-> ("v" :> <<Num(0), Num(2)>>),
   datetime_columns |-> <<"ts", "created_at">>,
   identifier_columns |-> <<"id">>,
   metadata_columns |-> <<"source">>,
   frequency_columns |-> <<"freq">>,
   powerfactor_columns |-> <<"pf">>,
   domain_rules |-> ("status" :> <<Str("A"), Str("B")>>),
   cross_field_rules |-> << <<"lo", "hi">> >>]

NoCall == [op |-> "", out |-> Ok(<<>>)]

Boot(cfg) ==
  /\ config = cfg
  /\ struct_service = StructuralQualityService(cfg)
  /\ semantic_service = SemanticQualityService(cfg)
  /\ last = NoCall
  /\ requests = <<>>

(***************************************************************************)
(* Actions: one per metric invocation, with the arguments the endpoint     *)
(* passes, and one per endpoint handler.                                   *)
(***************************************************************************)
Returns(op, out) ==
  /\ last' = [op |-> op, out |-> out]
  /\ UNCHANGED <<config, now, struct_service, semantic_service, requests>>

Completeness == Returns("completeness", completeness(df)) /\ UNCHANGED df

Consistency ==
  /\ "datetime_columns" \in DOMAIN config
  /\ Returns("consistency", consistency(df, present_datetime_columns(df, config)))
  /\ UNCHANGED df

Accuracy == Returns("accuracy", accuracy(df, numeric_columns(df))) /\ UNCHANGED df

Validity ==
  /\ "value_ranges" \in DOMAIN config
  /\ Returns("validity", validity(df, config["value_ranges"]))
  /\ UNCHANGED df

Timeliness ==
  /\ "datetime_columns" \in DOMAIN config
  /\ LET run == timeliness(df, present_datetime_columns(df, config))
     IN  /\ df' = run.df
         /\ Returns("timeliness", run.out)

Uniqueness == Returns("uniqueness", uniqueness(df)) /\ UNCHANGED df

check_core_quality ==
  LET run == core_report(df, config)
  IN  /\ df' = run.df
      /\ Returns("check_core_quality", run.out)

OutlierScore ==
  Returns("outlier_score", outlier_score(df, numeric_columns(df))) /\ UNCHANGED df

StatisticalAnomalies ==
  /\ Returns("statistical_anomalies", statistical_anomalies(df, numeric_columns(df)))
  /\ UNCHANGED df

DecimalPrecision ==
  Returns("decimal_precision", decimal_precision(df, numeric_columns(df))) /\ UNCHANGED df

Init ==
  /\ df \in CoreTables
  /\ now = 36
  /\ Boot(FullConfig)

Next ==
  \/ Completeness
  \/ Consistency
  \/ Accuracy
  \/ Validity
  \/ Timeliness
  \/ Uniqueness
  \/ check_core_quality
  \/ OutlierScore
  \/ StatisticalAnomalies
  \/ DecimalPrecision

Spec == Init /\ [][Next]_vars

(***************************************************************************)
(* The temporal endpoint: a table with one datetime column of up to        *)
(* MaxStamps rows, and a clock that advances between calls.                *)
(***************************************************************************)
NaiveStamps ==
  {Str("2024-01-01 00:00"), Str("2024-01-01 05:00"), Str("2024-01-03 00:00"),
   Str("2023-12-01 00:00"), Str("not-a-date"), NaN}

AwareStamps == {Str("2024-01-01 00:00+00:00"), Str("2024-01-03 05:00+00:00"), NaN}

TemporalTables ==
  UNION {{("ts" :> Series(t)) : t \in Runs(n, NaiveStamps) \cup Runs(n, AwareStamps)} :
         n \in 0..MaxStamps}

TimestampAccuracy ==
  /\ Returns("timestamp_accuracy",
             timestamp_accuracy(df, present_datetime_columns(df, config)))
  /\ UNCHANGED df

TemporalContinuity ==
  /\ Returns("temporal_continuity",
             temporal_continuity(df, present_datetime_columns(df, config)))
  /\ UNCHANGED df

TimeZoneConsistency ==
  /\ Returns("time_zone_consistency",
             time_zone_consistency(df, present_datetime_columns(df, config)))
  /\ UNCHANGED df

TemporalGranularity ==
  /\ Returns("temporal_granularity",
             temporal_granularity(df, present_datetime_columns(df, config)))
  /\ UNCHANGED df

FreshnessScore ==
  /\ Returns("freshness_score",
             freshness_score(df, present_datetime_columns(df, config), now))
  /\ UNCHANGED df

TemporalPattern ==
  /\ Returns("temporal_pattern",
             temporal_pattern(df, present_datetime_columns(df, config)))
  /\ UNCHANGED df

SeasonalityDetection ==
  /\ Returns("seasonality_detection",
             seasonality_detection(df, present_datetime_columns(df, config)))
  /\ UNCHANGED df

check_temporal_quality ==
  /\ Returns("check_temporal_quality", temporal_report(df, config, now))
  /\ UNCHANGED df

\* A day passes (datetime.now() is read anew by every freshness_score call).
Tick ==
  /\ now < 36 + 24 * MaxTicks
  /\ now' = now + 24
  /\ UNCHANGED <<df, config, last, struct_service, semantic_service, requests>>

InitTemporal ==
  /\ df \in TemporalTables
  /\ now = 36
  /\ Boot(FullConfig)

NextTemporal ==
  \/ TimestampAccuracy
  \/ TemporalContinuity
  \/ TimeZoneConsistency
  \/ TemporalGranularity
  \/ FreshnessScore
  \/ TemporalPattern
  \/ SeasonalityDetection
  \/ check_temporal_quality
  \/ Tick

SpecTemporal == InitTemporal /\ [][NextTemporal]_vars

(***************************************************************************)
(* The semantic endpoint: a status column and a power-factor column, or a  *)
(* power-factor column and a frequency column, under each domain rule.     *)
(***************************************************************************)
Statuses == {Str("A"), Str("B"), Str("C"), NaN}

PowerFactors == {Num(-2), Num(0), Num(2), NaN}

Frequencies == {Num(0), Num(1), NaN}

SemanticTablesOfLen(n) ==
  {("status" :> Series(x)) @@ ("pf" :> Series(y)) :
     x \in Runs(n, Statuses), y \in Runs(n, PowerFactors)}
  \cup {("freq" :> Series(x)) @@ ("pf" :> Series(y)) :
     x \in Runs(n, Frequencies), y \in Runs(n, PowerFactors)}

SemanticTables == UNION {SemanticTablesOfLen(n) : n \in 0..MaxRows}

DomainRuleSets ==
  {("status" :> <<Str("A"), Str("B")>>),
   ("status" :> <<Str("A"), Str("C")>>),
   ("status" :> <<Str("A"), Str("B"), Str("C")>>),
   ("pf" :> <<Num(-1), Num(1)>>),
   ("pf" :> <<Num(0), Num(2)>>) @@ ("status" :> <<Str("A")>>)}

BusinessRuleCompliance ==
  /\ Returns("business_rule_compliance", business_rule_compliance(semantic_service, df))
  /\ UNCHANGED df

DomainValueValidity ==
  /\ Returns("domain_value_validity", domain_value_validity(semantic_service, df))
  /\ UNCHANGED df

InitSemantic ==
  /\ df \in SemanticTables
  /\ now = 36
  /\ \E rules \in DomainRuleSets : Boot([FullConfig EXCEPT !.domain_rules = rules])

NextSemantic ==
  \/ BusinessRuleCompliance
  \/ DomainValueValidity

SpecSemantic == InitSemantic /\ [][NextSemantic]_vars

(***************************************************************************)
(* Settings documents that omit fields: every sub-document of the full     *)
(* one, with tables on which no metric fails under the full document.      *)
(***************************************************************************)
Restrict(f, S) == [x \in S |-> f[x]]

SettingsDocuments == {Restrict(FullConfig, S) : S \in SUBSET DOMAIN FullConfig}

PlainTables ==
  {("ts" :> Series(t)) @@ ("v" :> Series(x)) :
     t \in Runs(2, {Str("2024-01-01 00:00"), Str("2024-01-03 00:00"), NaN}),
     x \in Runs(2, {Num(0), Num(5)})}
  \cup {("status" :> Series(x)) @@ ("pf" :> Series(y)) :
     x \in Runs(1, {Str("A"), Str("C")}), y \in Runs(1, {Num(0), Num(2)})}

InitSettings ==
  /\ df \in PlainTables
  /\ now = 36
  /\ \E cfg \in SettingsDocuments : Boot(cfg)

NextSettings ==
  \/ check_core_quality
  \/ check_temporal_quality
  \/ BusinessRuleCompliance
  \/ DomainValueValidity

SpecSettings == InitSettings /\ [][NextSettings]_vars

(***************************************************************************)
(* The precision endpoint: calculation_accuracy on columns a, b, c, called *)
(* with each kind of column list.  np.isclose(x, y, atol=0.01) on the      *)
(* whole numbers of the model is x = y.                                    *)
(***************************************************************************)
\* base_cols: None (the default) or a list of column names.
None == [none |-> TRUE, list |-> <<>>]

List(s) == [none |-> FALSE, list |-> s]

\* clean_df = df[base_cols].dropna(): the rows kept.
clean_rows(d, cols) ==
  {i \in 1..len(d) : \A j \in DOMAIN cols : notna(d[cols[j]].vals[i])}

\* Lines 159-179: the three names unpacked, the absent ones reported, the
\* rows compared.
calculation_accuracy_of(d, cols) ==
  LET missing == {j \in DOMAIN cols : cols[j] \notin columns(d)}
      clean == clean_rows(d, cols)
      close == {i \in clean :
                  d[cols[1]].vals[i].v + d[cols[2]].vals[i].v = d[cols[3]].vals[i].v}
      n == Cardinality(clean)
      k == Cardinality(close)
  IN  IF missing # {} THEN Ok([error |-> "Missing columns"])
      ELSE IF clean = {}
      THEN Ok(("accuracy_%" :> Fin(0)) @@ ("status" :> "No data"))
      ELSE IF \E j \in 1..3 : d[cols[j]].dtype = "object"
      THEN Ok([error |-> "TypeError", status |-> "Error"])
      ELSE Ok(("accuracy_%" :> Fin(RoundDiv(k * 10000, n)))
              @@ ("status" :> (IF 100 * k < 92 * n THEN "Issue" ELSE "OK")))

\* The mutation of C11: the test len(base_cols) != 3 is left out, so the
\* unpacking col1, col2, col3 = base_cols raises on any other length.
calculation_accuracy_any_length(d, base_cols) ==
  IF base_cols.none \/ base_cols.list = <<>>
  THEN Ok([error |-> "Provide exactly 3 columns"])
  ELSE IF Len(base_cols.list) # 3 THEN Raise("ValueError")
  ELSE calculation_accuracy_of(d, base_cols.list)

calculation_accuracy(d, base_cols) ==
  IF base_cols.none \/ Len(base_cols.list) # 3
  THEN Ok([error |-> "Provide exactly 3 columns"])
  ELSE calculation_accuracy_of(d, base_cols.list)

PrecisionTablesOfLen(n) ==
  {("a" :> Series(x)) @@ ("b" :> Series(y)) @@ ("c" :> Series(z)) :
     x \in Runs(n, {Num(1), Num(2), NaN}),
     y \in {Col(n, Num(1), Num(1), n), Col(n, Str("x"), Str("x"), n)},
     z \in Runs(n, {Num(2), Num(3), NaN})}

PrecisionTables == UNION {PrecisionTablesOfLen(n) : n \in 0..MaxRows}

BaseCols ==
  {None, List(<<>>), List(<<"a", "b">>), List(<<"a", "b", "c">>),
   List(<<"a", "b", "z">>), List(<<"a", "b", "c", "c">>)}

ReturnsFor(op, args, out) ==
  /\ last' = [op |-> op, args |-> args, out |-> out]
  /\ UNCHANGED <<config, now, struct_service, semantic_service, requests>>

CalculationAccuracy ==
  /\ \E base_cols \in BaseCols :
       ReturnsFor("calculation_accuracy", base_cols, calculation_accuracy(df, base_cols))
  /\ UNCHANGED df

InitPrecision ==
  /\ df \in PrecisionTables
  /\ now = 36
  /\ Boot(FullConfig)

NextPrecision ==
  \/ CalculationAccuracy
  \/ DecimalPrecision

SpecPrecision == InitPrecision /\ [][NextPrecision]_vars

(***************************************************************************)
(* The statistical endpoint: range_conformity under value_ranges, beside   *)
(* outlier_score and statistical_anomalies, on the tables of the core      *)
(* endpoint.                                                               *)
(***************************************************************************)
\* df[col].between(min_val, max_val, inclusive="both"), one cell.
between(c, min_val, max_val) ==
  notna(c) /\ ~cell_lt(c, min_val) /\ ~cell_gt(c, max_val)

range_conformity_col(ser, min_val, max_val) ==
  LET total == Len(Values(ser))
      in_range == Cardinality({i \in DOMAIN ser.vals : between(ser.vals[i], min_val, max_val)})
  IN  IF total = 0
      THEN ("conformity_%" :> Null) @@ ("status" :> "No Data")
      ELSE ("conformity_%" :> Fin(RoundDiv(in_range * 10000, total)))
           @@ ("status" :> (IF 100 * in_range < 90 * total THEN "Issue" ELSE "OK"))

range_conformity(d, value_ranges) ==
  LET cols == DOMAIN value_ranges \cap columns(d)
  IN  IF \E col \in cols :
           /\ Len(Values(d[col])) > 0
           /\ \/ compare_raises(d[col], value_ranges[col][1])
              \/ compare_raises(d[col], value_ranges[col][2])
      THEN Raise("TypeError")
      ELSE Ok([col \in cols |->
                 range_conformity_col(d[col], value_ranges[col][1], value_ranges[col][2])])

RangeConformity ==
  /\ "value_ranges" \in DOMAIN config
  /\ Returns("range_conformity", range_conformity(df, config["value_ranges"]))
  /\ UNCHANGED df

InitStatistical ==
  /\ df \in CoreTables
  /\ now = 36
  /\ Boot(FullConfig)

NextStatistical ==
  \/ RangeConformity
  \/ OutlierScore
  \/ StatisticalAnomalies

SpecStatistical == InitStatistical /\ [][NextStatistical]_vars

\* validity and range_conformity, each called by its endpoint with the
\* value_ranges of the settings document, on the same table.
NextRanges ==
  \/ Validity
  \/ RangeConformity

SpecRanges == InitStatistical /\ [][NextRanges]_vars

(***************************************************************************)
(* The structural endpoint: structural_integrity, cardinality_quality and  *)
(* schema_drift of the service built from each settings document, on       *)
(* tables with identifier columns id, id2 beside ts, v.  An identifier     *)
(* column of n rows cycles through d distinct numbers; one table family    *)
(* has MaxIdRows rows, enough for a ratio that rounds up to 0.5.           *)
(***************************************************************************)
MaxIdRows == 101

\* df[col].nunique(): the distinct non-missing values.
nunique(ser) == Cardinality({c \in Range(ser.vals) : notna(c)})

structural_integrity(svc, d) ==
  LET ids == {col \in Range(svc.identifier_columns) : col \in columns(d)}
      cardinalities == [col \in ids |-> nunique(d[col])]
      consistent == Cardinality(Range(cardinalities)) = 1
  IN  IF svc.identifier_columns = <<>>
      THEN Ok([status |-> "No identifier columns configured"])
      ELSE Ok([cardinalities |-> cardinalities,
               status |-> IF consistent THEN "OK" ELSE "Inconsistent"])

cardinality_quality(svc, d) ==
  LET ids == {col \in Range(svc.identifier_columns) : col \in columns(d)}
      ratios == [col \in ids |->
                   IF len(d) > 0 THEN RoundDiv(nunique(d[col]) * 100, len(d)) ELSE 0]
      low_cardinality == {col \in ids : ratios[col] < 50}
  IN  Ok([unique_ratios |-> [col \in ids |-> Fin(ratios[col])],
          low_cardinality_columns |-> low_cardinality,
          status |-> IF low_cardinality = {} THEN "OK" ELSE "Low cardinality issue"])

\* The mutation of C13: missing_cols taken in the direction of new_cols.
schema_drift_one_way(svc, d) ==
  LET current_cols == columns(d)
      expected_cols == Range(svc.expected_schema)
      new_cols == current_cols \ expected_cols
      missing_cols == current_cols \ expected_cols
  IN  Ok([new_columns |-> new_cols,
          missing_columns |-> missing_cols,
          status |-> IF new_cols = {} /\ missing_cols = {} THEN "OK" ELSE "Drift Detected"])

schema_drift(svc, d) ==
  LET current_cols == columns(d)
      expected_cols == Range(svc.expected_schema)
      new_cols == current_cols \ expected_cols
      missing_cols == expected_cols \ current_cols
  IN  Ok([new_columns |-> new_cols,
          missing_columns |-> missing_cols,
          status |-> IF new_cols = {} /\ missing_cols = {} THEN "OK" ELSE "Drift Detected"])

IdColumn(n, d) == [i \in 1..n |-> Num((i - 1) % d)]

IdColumns(n) ==
  IF n = 0 THEN {<<>>}
  ELSE {IdColumn(n, d) : d \in 1..n}
       \cup {[i \in 1..n |-> IF i = 1 THEN NaN ELSE IdColumn(n, d)[i]] : d \in 1..n}

Filler(n) == Col(n, Num(0), Num(0), n)

StructuralTablesOfLen(n) ==
  LET others == {<<>>, ("ts" :> Series(Filler(n))), ("v" :> Series(Filler(n))),
                 ("ts" :> Series(Filler(n))) @@ ("v" :> Series(Filler(n)))}
  IN  {("id" :> Series(x)) @@ ("id2" :> Series(y)) @@ o :
         x \in IdColumns(n), y \in IdColumns(n), o \in others}
      \cup {("id" :> Series(x)) @@ o : x \in IdColumns(n), o \in others}
      \cup (others \ {<<>>})

StructuralTables ==
  UNION {StructuralTablesOfLen(n) : n \in 0..MaxRows}
  \cup {("id" :> Series(x)) : x \in IdColumns(MaxIdRows)}

StructuralDocuments ==
  {[expected_schema |-> e, identifier_columns |-> i] :
     e \in {<<"ts", "v">>, <<"ts", "v", "id">>},
     i \in {<<"id">>, <<"id", "id2">>, <<"id", "id2", "id3">>}}
  \cup {[expected_schema |-> <<"ts", "v">>], [identifier_columns |-> <<"id">>], <<>>}

StructuralIntegrity ==
  /\ Returns("structural_integrity", structural_integrity(struct_service, df))
  /\ UNCHANGED df

CardinalityQuality ==
  /\ Returns("cardinality_quality", cardinality_quality(struct_service, df))
  /\ UNCHANGED df

SchemaDrift ==
  /\ Returns("schema_drift", schema_drift(struct_service, df))
  /\ UNCHANGED df

InitStructural ==
  /\ df \in StructuralTables
  /\ now = 36
  /\ \E cfg \in StructuralDocuments : Boot(cfg)

NextStructural ==
  \/ StructuralIntegrity
  \/ CardinalityQuality
  \/ SchemaDrift

SpecStructural == InitStructural /\ [][NextStructural]_vars

(***************************************************************************)
(* The information endpoint: entropy_score.  math.log2 and np.log2 are the *)
(* table log2 of their values on the counts the model reaches, in units of *)
(* 1/10000; with it round(entropy / max_entropy, 3) is exact for columns   *)
(* of up to 6 rows.  entropy_score is carried in thousandths.              *)
(***************************************************************************)
log2(m) ==
  CASE m = 1 -> 0
    [] m = 2 -> 10000
    [] m = 3 -> 15850
    [] m = 4 -> 20000
    [] m = 5 -> 23219
    [] m = 6 -> 25850

\* str(x) of a cell: "1" in an int64 column, "1.0" in a float64 column.
astype_str(c, dtype) ==
  IF c.k = "num"
  THEN ToString(c.v) \o (IF dtype = "float64" THEN ".0" ELSE "")
  ELSE c.s

\* series.value_counts(): the count of each distinct text.
value_counts(texts) ==
  [s \in Range(texts) |-> Cardinality({i \in DOMAIN texts : texts[i] = s})]

\* n times -np.sum(probs * np.log2(probs)), for counts that sum to n.
entropy_times(counts, n) ==
  n * log2(n) - SumFn([s \in DOMAIN counts |-> counts[s] * log2(counts[s])])

\* The mutation of C14: the entropy is not normalised by log2 of the number
\* of distinct values.
entropy_score_col_raw(ser) ==
  LET kept == SelectSeq(ser.vals, notna)
      series == [i \in 1..Len(kept) |-> astype_str(kept[i], ser.dtype)]
      probs == value_counts(series)
      normalized_entropy ==
        RoundDiv(1000 * entropy_times(probs, Len(series)), Len(series) * 10000)
  IN  IF Len(series) = 0
      THEN [entropy_score |-> Fin(0), status |-> "Low entropy"]
      ELSE [entropy_score |-> Fin(normalized_entropy),
            status |-> IF normalized_entropy < 100 THEN "Low entropy" ELSE "OK"]

entropy_score_col(ser) ==
  LET kept == SelectSeq(ser.vals, notna)
      series == [i \in 1..Len(kept) |-> astype_str(kept[i], ser.dtype)]
      probs == value_counts(series)
      k == Cardinality(DOMAIN probs)
      max_entropy == IF k > 1 THEN log2(k) ELSE 10000
      normalized_entropy ==
        RoundDiv(1000 * entropy_times(probs, Len(series)), Len(series) * max_entropy)
  IN  IF Len(series) = 0
      THEN [entropy_score |-> Fin(0), status |-> "Low entropy"]
      ELSE [entropy_score |-> Fin(normalized_entropy),
            status |-> IF normalized_entropy < 100 THEN "Low entropy" ELSE "OK"]

entropy_score(d) == Ok([col \in columns(d) |-> entropy_score_col(d[col])])

InformationColumns(n) == IdColumns(n) \cup Runs(n, Texts)

InformationTables ==
  UNION {{("x" :> Series(x)) @@ ("y" :> Series(y)) :
            x \in InformationColumns(n), y \in InformationColumns(n)}
         \cup {("x" :> Series(x)) : x \in InformationColumns(n)} : n \in 0..MaxRows}

EntropyScore == Returns("entropy_score", entropy_score(df)) /\ UNCHANGED df

InitInformation ==
  /\ df \in InformationTables
  /\ now = 36
  /\ Boot(FullConfig)

NextInformation == EntropyScore

SpecInformation == InitInformation /\ [][NextInformation]_vars

(***************************************************************************)
(* The information endpoint, the other metrics and the handler.  Percents  *)
(* are carried in hundredths.                                              *)
(***************************************************************************)
\* df[col].notna().sum()
notna_sum(ser) == Cardinality({i \in DOMAIN ser.vals : notna(ser.vals[i])})

information_density_col(ser) ==
  LET total == Len(ser.vals)
      non_null == notna_sum(ser)
      density == IF total > 0 THEN RoundDiv(non_null * 10000, total) ELSE 0
  IN  ("information_density_%" :> Fin(density))
      @@ ("status" :> (IF density < 8000 THEN "Issue" ELSE "OK"))

information_density(d) ==
  Ok([col \in columns(d) |-> information_density_col(d[col])])

\* The mutation of C21: the density is returned in place of its complement.
sparsity_score_col_density(ser) ==
  LET total == Len(ser.vals)
      non_null == notna_sum(ser)
  IN  ("sparsity_%" :> Fin(IF total > 0 THEN RoundDiv(non_null * 10000, total) ELSE 0))

\* round(100 - density, 2) with density = non_null / total * 100 unrounded.
sparsity_score_col(ser) ==
  LET total == Len(ser.vals)
      non_null == notna_sum(ser)
      sparsity ==
        IF total > 0 THEN RoundDiv((total - non_null) * 10000, total) ELSE 10000
  IN  ("sparsity_%" :> Fin(sparsity))

sparsity_score(d) == Ok([col \in columns(d) |-> sparsity_score_col(d[col])])

\* df[col].duplicated().sum(): cells equal to an earlier cell of the column,
\* a missing cell being equal to a missing cell.
duplicated_cells(ser) ==
  Cardinality({i \in DOMAIN ser.vals : \E j \in 1..(i - 1) : ser.vals[j] = ser.vals[i]})

\* The mean of an empty Series is NaN, and NaN < 90 is False.
redundancy_score_col(ser) ==
  LET total == Len(ser.vals)
      redundancy == RoundDiv((total - duplicated_cells(ser)) * 10000, total)
  IN  IF total = 0
      THEN ("redundancy_%" :> NaNf) @@ ("status" :> "OK")
      ELSE ("redundancy_%" :> Fin(redundancy))
           @@ ("status" :> (IF redundancy < 9000 THEN "Issue" ELSE "OK"))

redundancy_score(d) == Ok([col \in columns(d) |-> redundancy_score_col(d[col])])

\* The mutation of C24: the unique ratio itself is returned as a percent.
compression_ratio_col_unique(ser) ==
  LET kept == SelectSeq(ser.vals, notna)
      series == [i \in 1..Len(kept) |-> astype_str(kept[i], ser.dtype)]
      compression ==
        IF Len(series) > 0
        THEN RoundDiv(Cardinality(Range(series)) * 10000, Len(series))
        ELSE 0
  IN  ("compression_ratio_%" :> Fin(compression))
      @@ ("status" :> (IF compression < 8500 THEN "Issue" ELSE "OK"))

compression_ratio_col(ser) ==
  LET kept == SelectSeq(ser.vals, notna)
      series == [i \in 1..Len(kept) |-> astype_str(kept[i], ser.dtype)]
      unique == Cardinality(Range(series))
      compression ==
        IF Len(series) > 0
        THEN RoundDiv((Len(series) - unique) * 10000, Len(series))
        ELSE 10000
  IN  ("compression_ratio_%" :> Fin(compression))
      @@ ("status" :> (IF compression < 8500 THEN "Issue" ELSE "OK"))

compression_ratio(d) == Ok([col \in columns(d) |-> compression_ratio_col(d[col])])

\* The handler of /information-quality: the five results of one table.
information_report(d) ==
  Ok([entropy_score |-> entropy_score(d).value,
      information_density |-> information_density(d).value,
      sparsity_score |-> sparsity_score(d).value,
      redundancy_score |-> redundancy_score(d).value,
      compression_ratio |-> compression_ratio(d).value])

InformationDensity ==
  Returns("information_density", information_density(df)) /\ UNCHANGED df

SparsityScore == Returns("sparsity_score", sparsity_score(df)) /\ UNCHANGED df

RedundancyScore == Returns("redundancy_score", redundancy_score(df)) /\ UNCHANGED df

CompressionRatio == Returns("compression_ratio", compression_ratio(df)) /\ UNCHANGED df

check_information_quality ==
  Returns("check_information_quality", information_report(df)) /\ UNCHANGED df

NextInformationReport ==
  \/ InformationDensity
  \/ SparsityScore
  \/ RedundancyScore
  \/ CompressionRatio
  \/ check_information_quality

\* A column of a spreadsheet keeps each cell's own type: the number 1 and
\* the text "1" can stand in one column (pd.read_excel).
SpreadsheetTables ==
  UNION {{("x" :> Series(x)) : x \in Runs(n, {Num(1), Str("1")})} : n \in 1..MaxRows}

InitInformationReport ==
  /\ df \in InformationTables \cup SpreadsheetTables
  /\ now = 36
  /\ Boot(FullConfig)

SpecInformationReport == InitInformationReport /\ [][NextInformationReport]_vars

(***************************************************************************)
(* temporal_continuity on a datetime column of up to MaxGapRows rows in    *)
(* any order, so that several distinct gaps occur.                         *)
(***************************************************************************)
MaxGapRows == 4

ContinuityTables ==
  UNION {{("ts" :> Series(s)) : s \in [1..n -> NaiveStamps]} : n \in 0..MaxGapRows}

InitContinuity ==
  /\ df \in ContinuityTables
  /\ now = 36
  /\ Boot(FullConfig)

NextContinuity == TemporalContinuity

SpecContinuity == InitContinuity /\ [][NextContinuity]_vars

(***************************************************************************)
(* Concurrent requests.  Each request holds its own table (the local df of *)
(* its handler) and calls metrics of the shared module-level instances one *)
(* after another; the calls of different requests interleave in any order. *)
(* A request follows the core endpoint's six calls, or calls the metrics   *)
(* of semantic_service, or those of struct_service.  requests is empty in  *)
(* the specifications of a single call.                                    *)
(***************************************************************************)
MaxRequests == 2

Plans ==
  {<<"completeness", "consistency", "accuracy", "validity", "timeliness", "uniqueness">>,
   <<"business_rule_compliance", "domain_value_validity">>,
   <<"structural_integrity", "cardinality_quality", "schema_drift">>}

\* One metric call of a request, on the request's table with the arguments
\* the handler computed from the table as read.
Invoke(metric, req) ==
  LET d == req.df
      datetime_columns == present_datetime_columns(req.upload, config)
      same(out) == [df |-> d, out |-> out]
  IN  CASE metric = "completeness" -> same(completeness(d))
        [] metric = "consistency" -> same(consistency(d, datetime_columns))
        [] metric = "accuracy" -> same(accuracy(d, numeric_columns(req.upload)))
        [] metric = "validity" -> same(validity(d, config["value_ranges"]))
        [] metric = "timeliness" -> timeliness(d, datetime_columns)
        [] metric = "uniqueness" -> same(uniqueness(d))
        [] metric = "business_rule_compliance" ->
             same(business_rule_compliance(semantic_service, d))
        [] metric = "domain_value_validity" ->
             same(domain_value_validity(semantic_service, d))
        [] metric = "structural_integrity" -> same(structural_integrity(struct_service, d))
        [] metric = "cardinality_quality" -> same(cardinality_quality(struct_service, d))
        [] metric = "schema_drift" -> same(schema_drift(struct_service, d))

NewRequest(plan, table) ==
  [plan |-> plan, upload |-> table, df |-> table, pc |-> 1,
   results |-> <<>>, exc |-> "", overlapped |-> FALSE]

Running(req) == req.exc = "" /\ req.pc <= Len(req.plan)

\* The request after its next call: the result stored under the metric's
\* name, or the exception that ends the request.
Advance(req) ==
  LET metric == req.plan[req.pc]
      run == Invoke(metric, req)
  IN  IF run.out.raised
      THEN [req EXCEPT !.exc = run.out.exc]
      ELSE [req EXCEPT !.df = run.df,
                       !.pc = req.pc + 1,
                       !.results = (metric :> run.out.value) @@ req.results]

\* The mutation of C16: the table is kept in one module-level variable, so a
\* request's call leaves its table where every other request reads it.
StepSharedTable(r) ==
  /\ Running(requests[r])
  /\ requests' =
       [s \in DOMAIN requests |->
          IF s = r THEN Advance(requests[r])
          ELSE [requests[s] EXCEPT !.df = Advance(requests[r]).df]]
  /\ UNCHANGED <<df, config, now, last, struct_service, semantic_service>>

\* Request r makes its next call.  overlapped records that another request
\* was between two of its calls at that moment.
Step(r) ==
  /\ Running(requests[r])
  /\ requests' =
       [requests EXCEPT
          ![r] = [Advance(requests[r]) EXCEPT
                    !.overlapped =
                      requests[r].overlapped
                        \/ \E s \in DOMAIN requests \ {r} :
                             Running(requests[s]) /\ requests[s].pc > 1]]
  /\ UNCHANGED <<df, config, now, last, struct_service, semantic_service>>

ConcurrentTables ==
  {("ts" :> Series(<<Str("2024-01-01 00:00"), Str("2024-01-03 00:00")>>))
     @@ ("v" :> Series(<<Num(0), Num(5)>>))
     @@ ("status" :> Series(<<Str("A"), Str("C")>>))
     @@ ("pf" :> Series(<<Num(0), Num(2)>>)),
   ("ts" :> Series(<<Str("not-a-date"), NaN>>))
     @@ ("v" :> Series(<<Num(1), Num(1)>>))
     @@ ("status" :> Series(<<Str("A"), Str("A")>>))
     @@ ("id" :> Series(<<Num(1), Num(1)>>))}

InitConcurrent ==
  /\ df = <<>>
  /\ now = 36
  /\ config = FullConfig
  /\ struct_service = StructuralQualityService(FullConfig)
  /\ semantic_service = SemanticQualityService(FullConfig)
  /\ last = NoCall
  /\ requests \in [1..MaxRequests ->
                     {NewRequest(plan, table) : plan \in Plans, table \in ConcurrentTables}]

NextConcurrent == \E r \in DOMAIN requests : Step(r)

SpecConcurrent == InitConcurrent /\ [][NextConcurrent]_vars

(***************************************************************************)
(* Reading a result: the float leaves of what the latest call returned.    *)
(***************************************************************************)
PercentFields ==
  {"score", "uniqueness_score", "validity_%", "outlier_%", "accuracy_%",
   "continuity_%", "timezone_consistency_%", "granularity_%", "freshness_%",
   "pattern_score_%", "seasonality_%"}

RatioFields == {"compliance_score", "domain_validity_score"}

TableLevel ==
  {"completeness", "uniqueness", "business_rule_compliance", "domain_value_validity"}

Handlers == {"check_core_quality", "check_temporal_quality"}

RecordLeaves(r, fields) == {r[f] : f \in DOMAIN r \cap fields}

MetricLeaves(op, value, fields) ==
  IF op \in TableLevel THEN RecordLeaves(value, fields)
  ELSE UNION {RecordLeaves(value[col], fields) : col \in DOMAIN value}

Leaves(call, fields) ==
  IF call.out.raised THEN {}
  ELSE IF call.op \in Handlers
  THEN UNION {MetricLeaves(m, call.out.value[m], fields) : m \in DOMAIN call.out.value}
  ELSE MetricLeaves(call.op, call.out.value, fields)

NoDataStatuses == {"No data", "No Data", "N/A"}

\* The rows of the table, as tuples of cells, and the rows that repeat an
\* earlier row.
Row(d, i) == [c \in columns(d) |-> d[c].vals[i]]

RepeatedRows(d) == len(d) - Cardinality({Row(d, i) : i \in 1..len(d)})

(***************************************************************************)
(* The claims.                                                             *)
(***************************************************************************)

\* C1: failure isolation -- every metric operation, and every report built
\* from them, returns a result structure; none ends by raising (validity on
\* a column that cannot be compared with its bounds included).
C1_EveryCallReturns == ~last.out.raised

\* C2: the table is a read-only input -- no metric invocation and no
\* handler changes any column's values or value kinds.
C2_TableNeverModified == [][df' = df]_vars

\* C3: idempotence -- the same metric invoked twice in a row on the same
\* table and settings returns the same result, whatever time elapses
\* between the two calls.
C3_SameCallSameResult == [][last'.op = last.op => last'.out = last.out]_vars

\* C4: every numeric leaf of every returned result is a finite number or an
\* explicit null; none is NaN or an infinity.
C4_LeavesFiniteOrNull ==
  \A x \in Leaves(last, PercentFields \cup RatioFields) : x.k \in {"fin", "null"}

\* C5: uniform insufficient-data policy -- in every per-column numeric
\* metric (accuracy, outlier_score, statistical_anomalies, decimal_precision)
\* a column with no usable value gets status "No data" (or "N/A"), never a
\* normal verdict, and the metric does not raise.
C5_NoDataColumnsSayNoData ==
  last.op \in {"accuracy", "outlier_score", "statistical_anomalies", "decimal_precision"}
    => /\ ~last.out.raised
       /\ \A col \in DOMAIN last.out.value :
            Values(df[col]) = <<>> => last.out.value[col]["status"] \in NoDataStatuses

\* C6: score range -- every score returned is a percentage in [0,100] or a
\* ratio in [0,1] (freshness_% of timestamps later than the clock and
\* seasonality_% included).
C6_ScoresInRange ==
  /\ \A x \in Leaves(last, PercentFields) : x.k = "fin" => x.v \in 0..10000
  /\ \A x \in Leaves(last, RatioFields) : x.k = "fin" => x.v \in 0..100

\* C7: a settings document that omits fields crashes nothing -- no call
\* ends in the KeyError of a missing field; the field counts as its empty
\* default.
C7_OmittedFieldsNeverCrash == ~(last.out.raised /\ last.out.exc = "KeyError")

\* C8: for all tables the completeness score lies in [0,100] and equals 100
\* exactly when the table has no missing cell.
C8_CompletenessRange ==
  last.op = "completeness"
    => /\ last.out.value.score.k = "fin"
       /\ last.out.value.score.v \in 0..10000
       /\ (last.out.value.score.v = 10000 <=> isnull_sum(df) = 0)

\* C9: for all tables, of any row count, uniqueness returns duplicate_count
\* >= 0, the number of rows repeating an earlier row; uniqueness_score =
\* 100 - 100*duplicate_count/rowCount within rounding to two decimals; and
\* status Issue exactly when duplicate_count > 0.
C9_UniquenessScore ==
  last.op = "uniqueness"
    => LET r == last.out.value
           n == len(df)
       IN  /\ r.duplicate_count >= 0
           /\ r.duplicate_count = RepeatedRows(df)
           /\ r.uniqueness_score.k = "fin"
           /\ 2 * (r.uniqueness_score.v * n - 10000 * (n - r.duplicate_count)) \in (-n)..n
           /\ (r.status = "Issue" <=> r.duplicate_count > 0)

\* C10: domain_value_validity -- a numeric [min,max] rule is a range check;
\* every other rule, a two-element list of allowed texts included, is an
\* allowed-value set: the column is in invalid_columns exactly when it holds
\* a value that is not a member of the set.  (Stated for the columns without
\* missing cells, where "a value" has one reading only.)
C10_RuleKinds ==
  (last.op = "domain_value_validity" /\ ~last.out.raised)
    => \A col \in DOMAIN semantic_service.domain_rules \cap columns(df) :
         LET rule == semantic_service.domain_rules[col]
             vals == Range(df[col].vals)
             numeric_range == Len(rule) = 2 /\ \A i \in 1..2 : rule[i].k = "num"
         IN  (\A c \in vals : notna(c))
               => (col \in last.out.value.invalid_columns
                     <=> IF numeric_range
                         THEN \E c \in vals : c.v < rule[1].v \/ c.v > rule[2].v
                         ELSE \E c \in vals : c \notin Range(rule))

\* What C11 asks of the call: exactly three names, all present, and in every
\* row three numbers with c = a + b.
SumHoldsInEveryRow(d, cols) ==
  /\ Len(cols) = 3
  /\ \A j \in 1..3 : cols[j] \in columns(d)
  /\ \A i \in 1..len(d) :
       /\ \A j \in 1..3 : d[cols[j]].vals[i].k = "num"
       /\ d[cols[1]].vals[i].v + d[cols[2]].vals[i].v = d[cols[3]].vals[i].v

ConfigurationError(out) ==
  ~out.raised /\ "error" \in DOMAIN out.value /\ "accuracy_%" \notin DOMAIN out.value

BadColumnList(d, base_cols) ==
  \/ base_cols.none
  \/ Len(base_cols.list) # 3
  \/ \E j \in DOMAIN base_cols.list : base_cols.list[j] \notin columns(d)

\* C11 (as the claim states it): calculation_accuracy given three present
\* columns with c = a + b in every row returns accuracy_% 100 and status OK;
\* given a list of another length, no list, or an absent column, it returns
\* a configuration-error result and raises nothing.
C11_CalculationAccuracy ==
  last.op = "calculation_accuracy"
    => /\ (~last.args.none /\ SumHoldsInEveryRow(df, last.args.list))
            => last.out = Ok(("accuracy_%" :> Fin(10000)) @@ ("status" :> "OK"))
       /\ BadColumnList(df, last.args) => ConfigurationError(last.out)

\* C11 (amended): the same, for a table with at least one row; on a table
\* without rows the sum holds in every row vacuously and the result is
\* accuracy_% 0 with status "No data".
C11_CalculationAccuracyWithRows ==
  last.op = "calculation_accuracy"
    => /\ (~last.args.none /\ SumHoldsInEveryRow(df, last.args.list))
            => last.out = IF len(df) > 0
                          THEN Ok(("accuracy_%" :> Fin(10000)) @@ ("status" :> "OK"))
                          ELSE Ok(("accuracy_%" :> Fin(0)) @@ ("status" :> "No data"))
       /\ BadColumnList(df, last.args) => ConfigurationError(last.out)

C11_Witness ==
  /\ last.op = "calculation_accuracy"
  /\ last.args = List(<<"a", "b", "c">>)
  /\ len(df) = MaxRows
  /\ SumHoldsInEveryRow(df, last.args.list)
  /\ last.out.value["accuracy_%"] = Fin(10000)

\* The non-missing cells of a column and those lying in [min, max]; a text
\* lies in no numeric range.
NonMissing(ser) == {i \in DOMAIN ser.vals : notna(ser.vals[i])}

InRange(ser, min_val, max_val) ==
  {i \in NonMissing(ser) :
     ser.vals[i].k = "num" /\ min_val.v <= ser.vals[i].v /\ ser.vals[i].v <= max_val.v}

\* C12: range_conformity, for each configured column present in the table:
\* no non-missing value gives status "No Data"; every non-missing value in
\* [min, max] gives conformity_% 100 and status OK; otherwise conformity_%
\* is 100 times the in-range fraction of the non-missing values, with
\* status Issue exactly when it is below 90.
C12_RangeConformity ==
  last.op = "range_conformity"
    => /\ ~last.out.raised
       /\ \A col \in DOMAIN config["value_ranges"] \cap columns(df) :
            LET r == last.out.value[col]
                n == Cardinality(NonMissing(df[col]))
                k == Cardinality(InRange(df[col], config["value_ranges"][col][1],
                                         config["value_ranges"][col][2]))
            IN  IF n = 0 THEN r["status"] = "No Data"
                ELSE /\ r["conformity_%"] = Fin(RoundDiv(k * 10000, n))
                     /\ (r["status"] = "Issue" <=> 100 * k < 90 * n)
                     /\ r["status"] \in {"Issue", "OK"}

\* The expected schema and the identifier columns of the settings document,
\* empty when the document omits them.
ExpectedSchema == IF "expected_schema" \in DOMAIN config THEN Range(config["expected_schema"]) ELSE {}

IdentifierColumns ==
  IF "identifier_columns" \in DOMAIN config THEN Range(config["identifier_columns"]) ELSE {}

\* C13: schema_drift returns new_columns = table columns - expected schema
\* and missing_columns = expected schema - table columns, and status OK
\* exactly when both are empty.
C13_SchemaDrift ==
  last.op = "schema_drift"
    => /\ ~last.out.raised
       /\ last.out.value.new_columns = columns(df) \ ExpectedSchema
       /\ last.out.value.missing_columns = ExpectedSchema \ columns(df)
       /\ (last.out.value.status = "OK" <=> columns(df) = ExpectedSchema)

C13_Witness ==
  /\ last.op = "schema_drift"
  /\ ExpectedSchema # {}
  /\ columns(df) = ExpectedSchema
  /\ last.out.value.status = "OK"
  /\ last.out.value.new_columns = {}
  /\ last.out.value.missing_columns = {}

\* The distinct non-missing values of a column, counted from its cells.
DistinctValues(ser) == {ser.vals[i] : i \in NonMissing(ser)}

\* C18: cardinality_quality, for each configured identifier column present
\* in a table with rows: the column is in low_cardinality_columns exactly
\* when distinct values / total rows < 0.5, and status is OK exactly when no
\* column is listed.
C18_CardinalityQuality ==
  (last.op = "cardinality_quality" /\ len(df) > 0)
    => /\ ~last.out.raised
       /\ \A col \in IdentifierColumns \cap columns(df) :
            col \in last.out.value.low_cardinality_columns
              <=> 2 * Cardinality(DistinctValues(df[col])) < len(df)
       /\ (last.out.value.status = "OK" <=> last.out.value.low_cardinality_columns = {})

\* C19: structural_integrity returns the "not configured" marker, with no
\* score, when no identifier column is configured; otherwise status OK when
\* the distinct-value counts of the configured identifier columns present in
\* the table are all equal (none present included: no two counts differ)
\* and Inconsistent otherwise.
C19_StructuralIntegrity ==
  last.op = "structural_integrity"
    => /\ ~last.out.raised
       /\ IF IdentifierColumns = {}
          THEN last.out.value = [status |-> "No identifier columns configured"]
          ELSE LET ids == IdentifierColumns \cap columns(df)
                   equal == \A a \in ids, b \in ids :
                              Cardinality(DistinctValues(df[a]))
                                = Cardinality(DistinctValues(df[b]))
               IN  last.out.value.status = IF equal THEN "OK" ELSE "Inconsistent"

\* How often each distinct non-missing value of a column occurs.
Occurrences(ser) ==
  [x \in DistinctValues(ser) |-> Cardinality({i \in NonMissing(ser) : ser.vals[i] = x})]

Parseable(ser) ==
  {i \in DOMAIN ser.vals : ser.vals[i].k = "str" /\ parse_datetime(ser.vals[i].s) # NaT}

\* C15: timestamp_accuracy reports, for each requested datetime column,
\* accuracy_% = 100 * (values that parse) / (all rows), rounded to two
\* decimals, with status Issue exactly when accuracy_% < 90.
C15_TimestampAccuracy ==
  last.op = "timestamp_accuracy"
    => /\ ~last.out.raised
       /\ DOMAIN last.out.value = {"ts"}
       /\ \A col \in DOMAIN last.out.value :
            LET r == last.out.value[col]
                n == Len(df[col].vals)
            IN  /\ n > 0 => r["accuracy_%"]
                              = Fin(RoundDiv(10000 * Cardinality(Parseable(df[col])), n))
                /\ r["status"] = IF r["accuracy_%"].v < 9000 THEN "Issue" ELSE "OK"

\* Three values, one of them unparseable: accuracy_% 66.67 and Issue.
C15_Witness ==
  /\ last.op = "timestamp_accuracy"
  /\ Len(df["ts"].vals) = 3
  /\ Cardinality(Parseable(df["ts"])) = 2
  /\ \E i \in 1..3 : df["ts"].vals[i] = Str("not-a-date")
  /\ last.out.value["ts"] = ("accuracy_%" :> Fin(6667)) @@ ("status" :> "Issue")

\* The sorted timestamps of a column and their successive gaps.
Stamps(ser) ==
  LET ok == SelectSeq(ser.vals, LAMBDA c : c.k = "str" /\ parse_datetime(c.s) # NaT)
  IN  SortInts([i \in 1..Len(ok) |-> parse_datetime(ok[i].s).v])

Gaps(ser) == Diffs(Stamps(ser))

\* The gaps strictly greater than twice the median gap.
Oversized(ser) ==
  {i \in DOMAIN Gaps(ser) : Gaps(ser)[i] > Median2(SortInts(Gaps(ser)))}

\* C20 (as the claim states it): temporal_continuity gives continuity_% 0
\* and Issue with fewer than 2 parseable timestamps; otherwise continuity_%
\* = 100 * (1 - fraction of gaps strictly greater than twice the median
\* gap), in [0,100], with status Issue exactly when continuity_% < 88.
C20_TemporalContinuity ==
  last.op = "temporal_continuity"
    => /\ ~last.out.raised
       /\ \A col \in DOMAIN last.out.value :
            LET r == last.out.value[col]
                g == Len(Gaps(df[col]))
                over == Cardinality(Oversized(df[col]))
            IN  IF Len(Stamps(df[col])) < 2
                THEN r = ("continuity_%" :> Fin(0)) @@ ("status" :> "Issue")
                ELSE /\ r["continuity_%"] = Fin(RoundDiv(10000 * (g - over), g))
                     /\ r["continuity_%"].v \in 0..10000
                     /\ r["status"] = IF r["continuity_%"].v < 8800 THEN "Issue" ELSE "OK"

\* C20 (amended): the same, except that when the median gap is 0 no gap
\* counts as oversized and continuity_% is 100.
C20_TemporalContinuityMedianGuard ==
  last.op = "temporal_continuity"
    => /\ ~last.out.raised
       /\ \A col \in DOMAIN last.out.value :
            LET r == last.out.value[col]
                g == Len(Gaps(df[col]))
                over == IF Median2(SortInts(Gaps(df[col]))) = 0 THEN 0
                        ELSE Cardinality(Oversized(df[col]))
            IN  IF Len(Stamps(df[col])) < 2
                THEN r = ("continuity_%" :> Fin(0)) @@ ("status" :> "Issue")
                ELSE /\ r["continuity_%"] = Fin(RoundDiv(10000 * (g - over), g))
                     /\ r["continuity_%"].v \in 0..10000
                     /\ r["status"] = IF r["continuity_%"].v < 8800 THEN "Issue" ELSE "OK"

\* Four distinct timestamps with one gap above twice the median gap.
C20_Witness ==
  /\ last.op = "temporal_continuity"
  /\ Len(Gaps(df["ts"])) = 3
  /\ Median2(SortInts(Gaps(df["ts"]))) > 0
  /\ Cardinality(Oversized(df["ts"])) = 1
  /\ last.out.value["ts"] = ("continuity_%" :> Fin(6667)) @@ ("status" :> "Issue")

\* A request run alone, start to finish, on the table it read.
RECURSIVE RunAlone(_)
RunAlone(req) == IF Running(req) THEN RunAlone(Advance(req)) ELSE req

Outcome(req) == [results |-> req.results, exc |-> req.exc]

\* C16: with the calls of the requests interleaved in any order, each
\* request obtains what it obtains when run alone (for the core endpoint:
\* the handler's report on its table), and no call changes the settings or
\* the configuration of the shared service instances.
C16_ConcurrentRequests ==
  /\ config = FullConfig
  /\ struct_service = StructuralQualityService(config)
  /\ semantic_service = SemanticQualityService(config)
  /\ \A r \in DOMAIN requests :
       LET req == requests[r]
           alone == RunAlone(NewRequest(req.plan, req.upload))
       IN  /\ ~Running(req) => Outcome(req) = Outcome(alone)
           /\ Running(req) => RunAlone(req) = [alone EXCEPT !.overlapped = req.overlapped]
           /\ (~Running(req) /\ req.plan[1] = "completeness")
                => LET report == core_report(req.upload, config).out
                   IN  IF report.raised THEN req.exc = report.exc
                       ELSE req.exc = "" /\ \A m \in DOMAIN req.results :
                                               req.results[m] = report.value[m]

\* Two requests with different tables, both finished, each having made a
\* call while the other was between two of its calls.
C16_Witness ==
  /\ requests # <<>>
  /\ \A r \in DOMAIN requests : ~Running(requests[r]) /\ requests[r].overlapped
  /\ requests[1].upload # requests[2].upload
  /\ requests[1].plan = requests[2].plan
  /\ requests[1].results # requests[2].results

\* The per-column metrics the endpoints call with a set of columns, and the
\* columns each call covers.
PerColumnMetrics ==
  {"validity", "accuracy", "outlier_score", "statistical_anomalies", "decimal_precision"}

ColumnsCovered(op) ==
  IF op = "validity" THEN DOMAIN config["value_ranges"] \cap columns(df)
  ELSE numeric_columns(df)

\* The metric on one column only, its siblings left out of the call.
OnColumnAlone(op, col) ==
  CASE op = "validity" ->
         validity(Restrict(df, {col}), Restrict(config["value_ranges"], {col}))
    [] op = "accuracy" -> accuracy(df, {col})
    [] op = "outlier_score" -> outlier_score(df, {col})
    [] op = "statistical_anomalies" -> statistical_anomalies(df, {col})
    [] OTHER -> decimal_precision(df, {col})

ErrorRecord(rec) ==
  /\ {"status", "error"} \subseteq DOMAIN rec
  /\ rec["status"] = "Error"

\* C17: errors at column granularity -- a per-column metric returns one
\* record per column it covers; a column whose computation fails gets a
\* record with status "Error" and an "error" message, and every other column
\* gets the record the metric computes for it alone (core and statistical
\* metrics as well as the precision metrics).
C17_ColumnErrorsRecorded ==
  last.op \in PerColumnMetrics =>
    /\ ~last.out.raised
    /\ \A col \in ColumnsCovered(last.op) :
         LET alone == OnColumnAlone(last.op, col)
         IN  IF alone.raised THEN ErrorRecord(last.out.value[col])
             ELSE last.out.value[col] = alone.value[col]

\* The two percents the report returns for a column.
DensityOf(col) == last.out.value.information_density[col]["information_density_%"]

SparsityOf(col) == last.out.value.sparsity_score[col]["sparsity_%"]

Percent(x) == x.k = "fin" /\ x.v >= 0 /\ x.v <= 10000

RedundancyOf(col) == last.out.value.redundancy_score[col]

CompressionOf(col) == last.out.value.compression_ratio[col]

\* Columns with at least one row and no missing value.
FullColumns == {col \in columns(df) :
                  /\ Len(df[col].vals) >= 1
                  /\ \A i \in DOMAIN df[col].vals : notna(df[col].vals[i])}

\* Columns whose cells are all numbers or all texts.
OneKindColumns == {col \in columns(df) :
                     \A i, j \in DOMAIN df[col].vals : df[col].vals[i].k = df[col].vals[j].k}

SumsToHundred(col) ==
  LET distinct == Cardinality(Range(df[col].vals))
      total == Len(df[col].vals)
  IN  /\ RedundancyOf(col)["redundancy_%"] = Fin(RoundDiv(10000 * distinct, total))
      /\ CompressionOf(col)["compression_ratio_%"]
           = Fin(RoundDiv(10000 * (total - distinct), total))
      /\ RedundancyOf(col)["redundancy_%"].v + CompressionOf(col)["compression_ratio_%"].v
           - 10000 \in {-1, 0, 1}

NotBothOK(col) ==
  ~(RedundancyOf(col)["status"] = "OK" /\ CompressionOf(col)["status"] = "OK")

\* C24: redundancy and compression are complements -- for every column with
\* at least one row and no missing values, redundancy_% is 100 * distinct /
\* total, compression_ratio_% is 100 * (1 - distinct / total), the two sum
\* to 100 within rounding, and the two statuses are never both OK.
C24_RedundancyPlusCompression ==
  last.op = "check_information_quality" =>
    \A col \in FullColumns : SumsToHundred(col) /\ NotBothOK(col)

\* C24, amended: the sum is 100 for the columns whose cells are all numbers
\* or all texts (distinct values then have distinct renderings as text);
\* the two statuses are never both OK for any column with rows and no
\* missing values.
C24_RedundancyPlusCompressionOneKind ==
  last.op = "check_information_quality" =>
    /\ \A col \in FullColumns \cap OneKindColumns : SumsToHundred(col)
    /\ \A col \in FullColumns : NotBothOK(col)

\* A report on a column of numbers without missing cells, two values in
\* three rows: redundancy 66.67 (Issue), compression 33.33 (Issue).
C24_Witness ==
  /\ last.op = "check_information_quality"
  /\ \E col \in FullColumns \cap OneKindColumns :
       /\ RedundancyOf(col)["redundancy_%"] = Fin(6667)
       /\ CompressionOf(col)["compression_ratio_%"] = Fin(3333)

\* A validity result and a range_conformity result of the same table agree:
\* both calls returned, and for each configured column present with a
\* non-missing value the in-range count is the non-missing count less
\* invalid_count, Valid going with conformity_% 100.
Agree(valid, conform) ==
  /\ ~valid.raised
  /\ ~conform.raised
  /\ \A col \in DOMAIN config["value_ranges"] \cap columns(df) :
       LET n == Cardinality(NonMissing(df[col]))
       IN  n > 0 =>
             /\ conform.value[col]["conformity_%"]
                  = Fin(RoundDiv((n - valid.value[col].invalid_count) * 10000, n))
             /\ valid.value[col].status = "Valid"
                  <=> conform.value[col]["conformity_%"] = Fin(10000)

\* C23: validity and range_conformity agree on the same value_ranges -- for
\* every configured column present in the table with at least one
\* non-missing value, invalid_count is the number of non-missing values less
\* the number range_conformity counts as in range, and validity reports
\* Valid exactly when range_conformity reports conformity_% = 100.
C23_ValidityAgreesWithRangeConformity ==
  [][(last.op = "validity" /\ last'.op = "range_conformity")
       => Agree(last.out, last'.out)]_vars

\* What each metric of the core report returns for a table, called with the
\* arguments the endpoint derives from the table and the settings.
CoreResults(d) ==
  [completeness |-> completeness(d),
   consistency |-> consistency(d, present_datetime_columns(d, config)),
   accuracy |-> accuracy(d, numeric_columns(d)),
   validity |-> validity(d, config["value_ranges"]),
   timeliness |-> timeliness(d, present_datetime_columns(d, config)).out,
   uniqueness |-> uniqueness(d)]

\* C22: order independence -- what a metric returns for the table does not
\* depend on the metrics invoked on it earlier: no invocation changes the
\* result any metric of the report gives afterwards.
C22_OrderIndependence == [][CoreResults(df') = CoreResults(df)]_vars
====
